---- MODULE Spec2Model ----
(***************************************************************************)
(* kubectl api-resources: the Complete -> Validate -> RunAPIResources      *)
(* sequence of staging/src/k8s.io/kubectl/pkg/cmd/apiresources.            *)
(*                                                                         *)
(* Strings are TLA+ strings; their byte-wise order (strings.Compare) is    *)
(* computed over the byte sequences given by Bytes.  A group-version       *)
(* string is the sequence of its "/"-separated segments: "apps/v1" is      *)
(* <<"apps", "v1">>, "v1" is <<"v1">>, "a/b/c" is <<"a", "b", "c">>.       *)
(***************************************************************************)
EXTENDS Integers, Sequences, FiniteSets, TLC

VARIABLES
    pc,            \* position in the Run closure of NewCmdAPIResources
    args,          \* positional arguments handed to Complete
    changed,       \* names of the flags the command line set (cmd.Flags().Changed)
    o,             \* APIResourceOptions
    printFlags,    \* o.PrintFlags: OutputFormat, NoHeaders
    printer,       \* the encoder o.PrintObj wraps ("" while PrintObj is nil)
    invalidated,   \* discoveryClient.Invalidate() was called
    fetched,       \* discoveryClient.ServerPreferredResources() was called
    lists,         \* the buckets the fetch returned
    fetchErr,      \* the fetch returned a non-nil error
    unsorted,      \* resources as built by the loop, before sort.Stable
    resources,     \* resources after sort.Stable
    allResources,  \* the per-bucket filtered lists
    flatList,      \* the list object handed to o.PrintObj
    out,           \* what was written to the output sink, in order
    result         \* how the invocation ended

vars == <<pc, args, changed, o, printFlags, printer, invalidated, fetched, lists,
          fetchErr, unsorted, resources, allResources, flatList, out, result>>

\* Longest catalog (number of buckets) a fetch returns in the model.
MaxBuckets == 2

Range(s) == {s[i] : i \in DOMAIN s}

(***************************************************************************)
(* Byte-wise string comparison                                             *)
(***************************************************************************)
Bytes(s) ==
    CASE s = ""            -> <<>>
      [] s = "apps"        -> <<97, 112, 112, 115>>
      [] s = "extensions"  -> <<101, 120, 116, 101, 110, 115, 105, 111, 110, 115>>
      [] s = "batch"       -> <<98, 97, 116, 99, 104>>
      [] s = "namespaces"  -> <<110, 97, 109, 101, 115, 112, 97, 99, 101, 115>>
      [] s = "bindings"    -> <<98, 105, 110, 100, 105, 110, 103, 115>>
      [] s = "daemonsets"  -> <<100, 97, 101, 109, 111, 110, 115, 101, 116, 115>>
      [] s = "DaemonSet"   -> <<68, 97, 101, 109, 111, 110, 83, 101, 116>>
      [] s = "deployments" -> <<100, 101, 112, 108, 111, 121, 109, 101, 110, 116, 115>>
      [] s = "Namespace"   -> <<78, 97, 109, 101, 115, 112, 97, 99, 101>>
      [] s = "Binding"     -> <<66, 105, 110, 100, 105, 110, 103>>
      [] s = "Deployment"  -> <<68, 101, 112, 108, 111, 121, 109, 101, 110, 116>>

\* strings.Compare: -1, 0 or 1 by the first differing byte, a proper prefix first.
RECURSIVE CompareBytes(_, _, _)
CompareBytes(a, b, i) ==
    IF i > Len(a) /\ i > Len(b) THEN 0
    ELSE IF i > Len(a) THEN -1
    ELSE IF i > Len(b) THEN 1
    ELSE IF a[i] < b[i] THEN -1
    ELSE IF a[i] > b[i] THEN 1
    ELSE CompareBytes(a, b, i + 1)

Compare(a, b) == CompareBytes(Bytes(a), Bytes(b), 1)

(***************************************************************************)
(* schema.ParseGroupVersion and GroupVersion.String, as called at lines    *)
(* 284 and 293/318.                                                        *)
(***************************************************************************)
\* strings.Count(gv, "/") is Len(gv) - 1 on the segment sequence.  The empty
\* string <<"">> and "/" = <<"", "">> both give the zero GroupVersion.
ParseGroupVersion(gv) ==
    IF Len(gv) = 1 THEN [err |-> FALSE, Group |-> "", Version |-> gv[1]]
    ELSE IF Len(gv) = 2 THEN [err |-> FALSE, Group |-> gv[1], Version |-> gv[2]]
    ELSE [err |-> TRUE, Group |-> "", Version |-> ""]

GVString(gv) ==
    IF gv.Group # "" THEN <<gv.Group, gv.Version>> ELSE <<gv.Version>>

(***************************************************************************)
(* The catalog a server can report                                         *)
(***************************************************************************)
\* metav1.APIResource.  Group and Version are the record's own fields, which a
\* server leaves empty ("the group of the containing resource list") or fills.
Res(name, kind, namespaced, verbs, categories, group, version) ==
    [Name |-> name, Kind |-> kind, Namespaced |-> namespaced, Verbs |-> verbs,
     Categories |-> categories, Group |-> group, Version |-> version]

Bucket(gv, rs) == [GroupVersion |-> gv, APIResources |-> rs]

BucketPool ==
    { Bucket(<<"v1">>,
             << Res("namespaces", "Namespace", FALSE, <<"get", "list">>, <<>>, "", ""),
                Res("bindings", "Binding", TRUE, <<>>, <<>>, "", "") >>),
      Bucket(<<"apps", "v1">>,
             << Res("deployments", "Deployment", TRUE, <<"get", "list">>, <<"all">>,
                    "apps", "v1") >>),
      Bucket(<<"extensions", "v1beta1">>,
             << Res("deployments", "Deployment", TRUE, <<"get">>, <<"all">>, "", ""),
                Res("daemonsets", "DaemonSet", TRUE, <<"get", "list">>, <<"all">>, "", "") >>),
      Bucket(<<"a", "b", "c">>,
             << Res("namespaces", "Namespace", FALSE, <<"get", "list">>, <<>>, "", "") >>),
      Bucket(<<"batch", "v1">>, <<>>) }

\* Catalogs: sequences of distinct buckets, in any enumeration order.
Catalogs ==
    UNION { { s \in [1..n -> BucketPool] : \A i, j \in 1..n : i # j => s[i] # s[j] }
            : n \in 0..MaxBuckets }

(***************************************************************************)
(* Options and flags                                                       *)
(***************************************************************************)
\* Values an exported SortBy field is given by a caller; the --sort-by flag
\* registration is commented out (line 198).
SortKeys == {"", "name", "kind", "bogus"}

\* Values given to --output.
OutputFormats == {"", "wide", "name", "json", "bogus"}

\* Values given to --api-group, --verbs and --categories.
APIGroupValues == {"", "apps"}
VerbsValues == {<<>>, <<"list">>}
CategoriesValues == {<<>>, <<"all">>}

\* Positional arguments: none, or one stray argument.
ArgsValues == {<<>>, <<"pods">>}

\* The zero metav1.APIResourceList.
ZeroList == [Kind |-> "", APIVersion |-> "", GroupVersion |-> <<"">>, APIResources |-> <<>>]

\* NewAPIResourceOptions and NewPrintFlags, then the flags of NewCmdAPIResources
\* bound to the option fields and parsed: a flag that was not given leaves its
\* field at the default (APIGroup "", Namespaced true).
Init ==
    /\ pc = "start"
    /\ args \in ArgsValues
    /\ changed \in SUBSET {"api-group", "namespaced"}
    /\ \E sortBy \in SortKeys, group \in APIGroupValues, ns \in BOOLEAN,
          verbs \in VerbsValues, cached \in BOOLEAN, cats \in CategoriesValues :
          o = [SortBy |-> sortBy,
               APIGroup |-> IF "api-group" \in changed THEN group ELSE "",
               Namespaced |-> IF "namespaced" \in changed THEN ns ELSE TRUE,
               Verbs |-> verbs, Cached |-> cached, Categories |-> cats,
               groupChanged |-> FALSE, nsChanged |-> FALSE]
    /\ printFlags \in [OutputFormat : OutputFormats, NoHeaders : BOOLEAN]
    /\ printer = [kind |-> "", NoHeaders |-> FALSE]
    /\ invalidated = FALSE
    /\ fetched = FALSE
    /\ lists = <<>>
    /\ fetchErr = FALSE
    /\ unsorted = <<>>
    /\ resources = <<>>
    /\ allResources = <<>>
    /\ flatList = ZeroList
    /\ out = <<>>
    /\ result = "none"

(***************************************************************************)
(* PrintFlags.ToPrinter                                                    *)
(***************************************************************************)
\* Which format strings each encoder declares itself compatible with.
JSONYamlCompatible(format) == format \in {"json", "yaml"}
HumanReadableCompatible(format) == format \in {"", "wide"}
NameCompatible(format) == format \in {"", "name"}

\* Structured encoders first, then the table encoder, then the name encoder;
\* no compatible encoder is an error.
ToPrinter(f) ==
    IF JSONYamlCompatible(f.OutputFormat)
    THEN [err |-> FALSE, kind |-> f.OutputFormat, NoHeaders |-> f.NoHeaders]
    ELSE IF HumanReadableCompatible(f.OutputFormat)
    THEN [err |-> FALSE, kind |-> "human", NoHeaders |-> f.NoHeaders]
    ELSE IF NameCompatible(f.OutputFormat)
    THEN [err |-> FALSE, kind |-> "name", NoHeaders |-> f.NoHeaders]
    ELSE [err |-> TRUE, kind |-> "", NoHeaders |-> f.NoHeaders]

\* cmdutil.CheckErr on a non-nil error: the process exits with that error.
Exit(err) ==
    /\ pc' = "exited"
    /\ result' = err

(***************************************************************************)
(* Complete                                                                *)
(***************************************************************************)
Complete ==
    /\ pc = "start"
    /\ IF Len(args) # 0
       THEN /\ Exit("usageError")
            /\ UNCHANGED <<o, printer>>
       ELSE \E clientOK \in BOOLEAN :
            IF ~clientOK
            THEN /\ Exit("clientError")
                 /\ UNCHANGED <<o, printer>>
            ELSE /\ o' = [o EXCEPT !.groupChanged = "api-group" \in changed,
                                   !.nsChanged = "namespaced" \in changed]
                 /\ LET p == ToPrinter(printFlags) IN
                    IF p.err
                    THEN /\ Exit("printerError")
                         /\ UNCHANGED printer
                    ELSE /\ printer' = [kind |-> p.kind, NoHeaders |-> p.NoHeaders]
                         /\ pc' = "completed"
                         /\ UNCHANGED result
    /\ UNCHANGED <<args, changed, printFlags, invalidated, fetched, lists, fetchErr,
                   unsorted, resources, allResources, flatList, out>>

(***************************************************************************)
(* Validate                                                                *)
(***************************************************************************)
supportedSortTypes == {"", "name", "kind"}

\* Validate with the membership test inverted.
ValidateErrInverted(opts) == opts.SortBy # "" /\ opts.SortBy \in {"", "name", "kind"}

ValidateErr(opts) == opts.SortBy # "" /\ opts.SortBy \notin supportedSortTypes

Validate ==
    /\ pc = "completed"
    /\ IF ValidateErr(o)
       THEN Exit("sortError")
       ELSE /\ pc' = "validated"
            /\ UNCHANGED result
    /\ UNCHANGED <<args, changed, o, printFlags, printer, invalidated, fetched, lists,
                   fetchErr, unsorted, resources, allResources, flatList, out>>

(***************************************************************************)
(* RunAPIResources: flatten and filter                                     *)
(***************************************************************************)
\* sets.New(have...).HasAll(want...)
HasAll(have, want) == Range(want) \subseteq Range(have)

\* The api-group predicate keyed on a non-empty string instead of on the flag
\* having been given.
GroupFilterOnNonEmpty(opts, gv) == ~(opts.APIGroup # "" /\ opts.APIGroup # gv.Group)

\* The api-group predicate of the loop body (lines 300-303).
GroupFilterPasses(opts, gv) == ~(opts.groupChanged /\ opts.APIGroup # gv.Group)

\* The namespaced comparison inverted.
NamespacedFilterInverted(opts, resource) ==
    ~(opts.nsChanged /\ opts.Namespaced = resource.Namespaced)

\* The namespaced predicate of the loop body (lines 304-307).
NamespacedFilterPasses(opts, resource) ==
    ~(opts.nsChanged /\ opts.Namespaced # resource.Namespaced)

\* The loop body without the empty-verbs skip.
KeepEmptyVerbs(opts, gv, resource) ==
    /\ ~(opts.groupChanged /\ opts.APIGroup # gv.Group)
    /\ ~(opts.nsChanged /\ opts.Namespaced # resource.Namespaced)
    /\ ~(Len(opts.Verbs) > 0 /\ ~(Range(opts.Verbs) \subseteq Range(resource.Verbs)))
    /\ ~(Len(opts.Categories) > 0
          /\ ~(Range(opts.Categories) \subseteq Range(resource.Categories)))

\* A resource of a bucket is appended unless one of the loop's continue
\* statements skips it (lines 297-315).
Keep(opts, gv, resource) ==
    /\ Len(resource.Verbs) # 0
    /\ GroupFilterPasses(opts, gv)
    /\ NamespacedFilterPasses(opts, resource)
    /\ ~(Len(opts.Verbs) > 0 /\ ~HasAll(resource.Verbs, opts.Verbs))
    /\ ~(Len(opts.Categories) > 0 /\ ~HasAll(resource.Categories, opts.Categories))

groupResource(gv, resource) ==
    [APIGroup |-> gv.Group, APIGroupVersion |-> GVString(gv), APIResource |-> resource]

\* The loop over the fetched lists (lines 280-325), from bucket k on: acc holds
\* resources and allResources as built so far.
RECURSIVE Collect(_, _, _, _)
Collect(opts, ls, k, acc) ==
    IF k > Len(ls) THEN acc
    ELSE LET list == ls[k]
             gv == ParseGroupVersion(list.GroupVersion)
         IN IF Len(list.APIResources) = 0 THEN Collect(opts, ls, k + 1, acc)
            ELSE IF gv.err THEN Collect(opts, ls, k + 1, acc)
            ELSE LET kept == SelectSeq(list.APIResources, LAMBDA r : Keep(opts, gv, r))
                     entries == [i \in 1..Len(kept) |-> groupResource(gv, kept[i])]
                     apiList == [Kind |-> "APIResourceList", APIVersion |-> "v1",
                                 GroupVersion |-> GVString(gv), APIResources |-> kept]
                 IN Collect(opts, ls, k + 1,
                            [resources |-> acc.resources \o entries,
                             allResources |-> Append(acc.allResources, apiList)])

\* flatList.APIResources: the filtered records of every kept bucket, appended
\* in bucket order (lines 339-341).
RECURSIVE Concat(_, _)
Concat(all, k) ==
    IF k > Len(all) THEN <<>> ELSE all[k].APIResources \o Concat(all, k + 1)

(***************************************************************************)
(* sortableResource                                                        *)
(***************************************************************************)
compareValues(s, sortBy, i, j) ==
    IF sortBy = "name" THEN <<s[i].APIResource.Name, s[j].APIResource.Name>>
    ELSE IF sortBy = "kind" THEN <<s[i].APIResource.Kind, s[j].APIResource.Kind>>
    ELSE <<s[i].APIGroup, s[j].APIGroup>>

\* Less with the tie-break comparison made non-strict.
LessOrEqual(s, sortBy, i, j) ==
    LET v == compareValues(s, sortBy, i, j)
        ret == Compare(v[1], v[2])
    IN IF ret > 0 THEN FALSE
       ELSE IF ret = 0 THEN Compare(s[i].APIResource.Name, s[j].APIResource.Name) <= 0
       ELSE TRUE

Less(s, sortBy, i, j) ==
    LET v == compareValues(s, sortBy, i, j)
        ret == Compare(v[1], v[2])
    IN IF ret > 0 THEN FALSE
       ELSE IF ret = 0 THEN Compare(s[i].APIResource.Name, s[j].APIResource.Name) < 0
       ELSE TRUE

Swap(s, i, j) == [s EXCEPT ![i] = s[j], ![j] = s[i]]

\* sort.Stable on fewer than 20 elements is one insertion sort:
\* for i := 1; i < n; i++ { for j := i; j > 0 && Less(j, j-1); j-- { Swap(j, j-1) } }
RECURSIVE SinkDown(_, _, _)
SinkDown(s, sortBy, j) ==
    IF j > 1 /\ Less(s, sortBy, j, j - 1)
    THEN SinkDown(Swap(s, j, j - 1), sortBy, j - 1)
    ELSE s

RECURSIVE InsertionSort(_, _, _)
InsertionSort(s, sortBy, i) ==
    IF i > Len(s) THEN s ELSE InsertionSort(SinkDown(s, sortBy, i), sortBy, i + 1)

Stable(s, sortBy) == InsertionSort(s, sortBy, 2)

(***************************************************************************)
(* RunAPIResources                                                         *)
(***************************************************************************)
printContextHeaders(output) ==
    IF output = "wide"
    THEN <<"NAME", "SHORTNAMES", "APIVERSION", "NAMESPACED", "KIND", "VERBS", "CATEGORIES">>
    ELSE <<"NAME", "SHORTNAMES", "APIVERSION", "NAMESPACED", "KIND">>

\* The condition under which the header row is written (line 327).
HeaderWanted(f) == ~f.NoHeaders /\ (f.OutputFormat = "" \/ f.OutputFormat = "wide")

HeaderRow(f) == [kind |-> "header", columns |-> printContextHeaders(f.OutputFormat),
                 object |-> ZeroList]

ObjectRow(list) == [kind |-> "object", columns |-> <<>>, object |-> list]

\* One call of RunAPIResources.  The fetch returns any catalog, with or
\* without an error; o.PrintObj succeeds or fails.  Indexing allResources[0]
\* when no bucket was kept is a run-time panic; the deferred w.Flush() still
\* writes the header row.
RunAPIResources ==
    /\ pc = "validated"
    /\ \E ls \in Catalogs :
          LET c == Collect(o, ls, 1, [resources |-> <<>>, allResources |-> <<>>])
              hdr == IF HeaderWanted(printFlags) THEN <<HeaderRow(printFlags)>> ELSE <<>>
              flat == [Kind |-> c.allResources[1].Kind,
                       APIVersion |-> c.allResources[1].APIVersion,
                       GroupVersion |-> <<"">>,
                       APIResources |-> Concat(c.allResources, 1)]
          IN /\ invalidated' = (invalidated \/ ~o.Cached)
             /\ fetched' = TRUE
             /\ lists' = ls
             /\ fetchErr' \in BOOLEAN
             /\ unsorted' = c.resources
             /\ allResources' = c.allResources
             /\ IF Len(c.allResources) = 0
                THEN /\ pc' = "panicked"
                     /\ result' = "panic"
                     /\ out' = out \o hdr
                     /\ resources' = c.resources
                     /\ UNCHANGED flatList
                ELSE /\ flatList' = flat
                     /\ resources' = Stable(c.resources, o.SortBy)
                     /\ \E printOK \in BOOLEAN :
                           IF printOK
                           THEN /\ out' = (out \o hdr) \o <<ObjectRow(flat)>>
                                /\ pc' = "returned"
                                /\ result' = "nil"
                           ELSE /\ out' = out \o hdr
                                /\ Exit("renderError")
    /\ UNCHANGED <<args, changed, o, printFlags, printer>>

Next == Complete \/ Validate \/ RunAPIResources

Spec == Init /\ [][Next]_vars

(***************************************************************************)
(* Properties                                                              *)
(***************************************************************************)
\* o.PrintObj was called with flatList.
Printed == fetched /\ result \in {"nil", "renderError"}

\* The group a bucket's group-version string names, and the string it is
\* normalised to.
GroupOf(bucket) == ParseGroupVersion(bucket.GroupVersion).Group
NormalisedGV(bucket) == GVString(ParseGroupVersion(bucket.GroupVersion))

\* The buckets of the fetched catalog the loop does not skip.
KeptBuckets ==
    {k \in DOMAIN lists : Len(lists[k].APIResources) # 0
                          /\ Len(lists[k].GroupVersion) \in {1, 2}}

\* The i-th record of flatList was appended together with unsorted[i]
\* (lines 316-321), which names the bucket it came from.
RenderedFrom(i) == unsorted[i]

\* C1: every entry handed to the renderer satisfies all active predicates at
\* once: group equality when the group filter is active, namespaced equality
\* when --namespaced was given, verb superset, category superset.
C1_RenderedSatisfyAllPredicates ==
    Printed =>
        /\ Len(flatList.APIResources) = Len(unsorted)
        /\ \A i \in DOMAIN flatList.APIResources :
              LET r == flatList.APIResources[i] IN
              /\ RenderedFrom(i).APIResource = r
              /\ \E k \in KeptBuckets :
                    /\ r \in Range(lists[k].APIResources)
                    /\ NormalisedGV(lists[k]) = RenderedFrom(i).APIGroupVersion
                    /\ (o.groupChanged \/ o.APIGroup # "") => GroupOf(lists[k]) = o.APIGroup
              /\ o.nsChanged => r.Namespaced = o.Namespaced
              /\ Range(o.Verbs) \subseteq Range(r.Verbs)
              /\ Range(o.Categories) \subseteq Range(r.Categories)

\* A run with all four filters active that rendered an entry and dropped one.
C1_Witness ==
    /\ Printed
    /\ o.groupChanged /\ o.nsChanged /\ o.Verbs # <<>> /\ o.Categories # <<>>
    /\ Len(flatList.APIResources) > 0
    /\ \E k \in KeptBuckets : \E r \in Range(lists[k].APIResources) :
          r \notin Range(flatList.APIResources)

\* The Sorter's order on two entries: e1 strictly before e2.
Before(e1, e2) == Less(<<e1, e2>>, o.SortBy, 1, 2)

\* C2: the rendered sequence is in Sorter order (non-decreasing by primary key,
\* resource name as tie-break) whatever order the buckets were enumerated in.
C2_RenderedInSorterOrder ==
    pc = "returned" =>
        \A i, j \in DOMAIN flatList.APIResources :
            i < j => ~Before(RenderedFrom(j), RenderedFrom(i))

\* C3: a run whose fetch returned an error never ends with a nil result.
C3_FetchErrorSurfaced ==
    (fetched /\ fetchErr) => (pc # "returned" /\ result # "nil")

\* C4: when no bucket of the catalog is kept, the run completes normally and
\* renders an empty result set.
C4_EmptyCatalogRendersEmpty ==
    (fetched /\ KeptBuckets = {}) =>
        /\ result \in {"nil", "renderError"}
        /\ flatList.APIResources = <<>>

\* The configuration errors: stray positional arguments, an unrecognized
\* output format, a sort key other than "", "name", "kind".
StrayArgs == Len(args) # 0
BadFormat == printFlags.OutputFormat \notin {"", "wide", "name", "json", "yaml"}
BadSortKey == o.SortBy \notin {"", "name", "kind"}

\* C5: with a configuration error the catalog source is never invalidated or
\* fetched and nothing is written; the error is reported by Complete (stray
\* arguments, format) or Validate (sort key) and the pipeline does not run.
C5_ConfigErrorBeforePipeline ==
    (StrayArgs \/ BadFormat \/ BadSortKey) =>
        /\ ~invalidated /\ ~fetched /\ out = <<>>
        /\ pc \in {"start", "completed", "exited"}
        /\ pc = "completed" => (~StrayArgs /\ ~BadFormat)
        /\ pc = "exited" =>
              result \in {"usageError", "clientError", "printerError", "sortError"}
        /\ result = "sortError" => (BadSortKey /\ ~StrayArgs /\ ~BadFormat)

\* Validate rejected a bad sort key of a run that asked for fresh data.
C5_Witness ==
    /\ pc = "exited" /\ result = "sortError"
    /\ BadSortKey /\ ~o.Cached
    /\ ~invalidated /\ ~fetched /\ out = <<>>

\* C6: a resource with an empty verb set is never rendered, whatever the
\* filters.
C6_NoEmptyVerbsRendered ==
    /\ \A r \in Range(flatList.APIResources) : Len(r.Verbs) # 0
    /\ \A i \in DOMAIN out :
          \A r \in Range(out[i].object.APIResources) : Len(r.Verbs) # 0

\* A run without any filter rendered a kept bucket that holds a resource with
\* no verbs.
C6_Witness ==
    /\ pc = "returned"
    /\ ~o.groupChanged /\ ~o.nsChanged /\ o.Verbs = <<>> /\ o.Categories = <<>>
    /\ Len(flatList.APIResources) > 0
    /\ \E k \in KeptBuckets : \E r \in Range(lists[k].APIResources) : Len(r.Verbs) = 0

\* Whether the header row is expected, from the format and the flag alone.
HeaderExpected == printFlags.OutputFormat \in {"", "wide"} /\ ~printFlags.NoHeaders

ExpectedColumns ==
    IF printFlags.OutputFormat = "wide"
    THEN <<"NAME", "SHORTNAMES", "APIVERSION", "NAMESPACED", "KIND", "VERBS", "CATEGORIES">>
    ELSE <<"NAME", "SHORTNAMES", "APIVERSION", "NAMESPACED", "KIND">>

\* C7: the header row depends only on format and no-headers flag and precedes
\* every entry, also when nothing survives filtering; and a run in which no
\* entry survives ends without error with an empty entry sequence.
C7_HeaderIndependentOfRows ==
    fetched =>
        /\ HeaderExpected =>
              /\ Len(out) >= 1
              /\ out[1].kind = "header" /\ out[1].columns = ExpectedColumns
              /\ \A i \in DOMAIN out : i > 1 => out[i].kind # "header"
        /\ ~HeaderExpected => \A i \in DOMAIN out : out[i].kind # "header"
        /\ unsorted = <<>> =>
              /\ result \in {"nil", "renderError"}
              /\ flatList.APIResources = <<>>

\* The group-version a record of the flattened list carries: its own Group and
\* Version when the server filled them, else the list's GroupVersion.
CarriedGV(list, r) ==
    IF r.Group = "" /\ r.Version = "" THEN list.GroupVersion
    ELSE GVString([Group |-> r.Group, Version |-> r.Version])

TupleOf(gv, r) == <<gv, r.Name, r.Kind, r.Namespaced, r.Verbs, r.Categories>>

\* C8: every record of the flattened list carries the group-version of its
\* bucket, so the tuples recoverable from the list are those of the filtered
\* entries.
C8_FlatListLossless ==
    pc = "returned" =>
        /\ \A i \in DOMAIN flatList.APIResources :
              CarriedGV(flatList, flatList.APIResources[i]) = RenderedFrom(i).APIGroupVersion
        /\ {TupleOf(CarriedGV(flatList, r), r) : r \in Range(flatList.APIResources)}
           = {TupleOf(e.APIGroupVersion, e.APIResource) : e \in Range(unsorted)}

\* Primary key of an entry under the sort key, and its full comparison key.
PrimaryKey(e) ==
    IF o.SortBy = "name" THEN e.APIResource.Name
    ELSE IF o.SortBy = "kind" THEN e.APIResource.Kind
    ELSE e.APIGroup

FullKey(e) == <<PrimaryKey(e), e.APIResource.Name>>

Count(s, e) == Cardinality({i \in DOMAIN s : s[i] = e})

\* Distinct entries at positions a < b of the filtered sequence have equal
\* full keys.
Tied(a, b) ==
    /\ a < b
    /\ unsorted[a] # unsorted[b]
    /\ FullKey(unsorted[a]) = FullKey(unsorted[b])

\* C9: sort.Stable yields a permutation of the filtered sequence in which
\* entries with equal (primary key, name) keep their relative order and no
\* entry precedes one that is Less than it; Less is a strict ordering (never
\* Less(i,j) and Less(j,i) together, never Less(i,i)).
C9_StablePermutation ==
    /\ Len(resources) = Len(unsorted)
    /\ \A e \in Range(unsorted) \cup Range(resources) :
          Count(resources, e) = Count(unsorted, e)
    /\ \A a, b \in DOMAIN unsorted :
          Tied(a, b) =>
             \A i, j \in DOMAIN resources :
                (resources[i] = unsorted[a] /\ resources[j] = unsorted[b]) => i < j
    /\ \A i \in DOMAIN resources : ~Less(resources, o.SortBy, i, i)
    /\ \A i, j \in DOMAIN resources :
          (i < j /\ Less(resources, o.SortBy, j, i)) =>
             (~Printed /\ ~Less(resources, o.SortBy, i, j))

\* The Sorter reordered a sequence that holds two entries with equal keys.
C9_Witness ==
    /\ Printed
    /\ resources # unsorted
    /\ \E a, b \in DOMAIN unsorted : Tied(a, b)

\* The resources of the kept buckets that pass every predicate but the group
\* predicate, as <<bucket index, resource>>.
Candidates ==
    {c \in UNION {{<<k, r>> : r \in Range(lists[k].APIResources)} : k \in KeptBuckets} :
        /\ Len(c[2].Verbs) # 0
        /\ (o.nsChanged => c[2].Namespaced = o.Namespaced)
        /\ Range(o.Verbs) \subseteq Range(c[2].Verbs)
        /\ Range(o.Categories) \subseteq Range(c[2].Categories)}

\* The candidate passed the group predicate: the loop appended it.
Passed(c) ==
    \E i \in DOMAIN unsorted :
        /\ unsorted[i].APIResource = c[2]
        /\ unsorted[i].APIGroupVersion = NormalisedGV(lists[c[1]])

\* C10 as stated: the group filter is inactive whenever its string is empty,
\* given explicitly or not; non-empty, exactly the resources of that group pass.
C10_InactiveWhenEmpty ==
    pc = "returned" =>
        \A c \in Candidates :
            Passed(c) <=> (o.APIGroup = "" \/ GroupOf(lists[c[1]]) = o.APIGroup)

\* C10 amended: the group filter is active exactly when --api-group was given;
\* not given, resources of every group pass; given, exactly the resources whose
\* parsed group equals the value pass, the empty value naming the core group.
C10_ActiveWhenGiven ==
    fetched =>
        \A c \in Candidates :
            Passed(c) <=> (~o.groupChanged \/ GroupOf(lists[c[1]]) = o.APIGroup)

\* --api-group="" was given and kept the core group's resources only.
C10_Witness ==
    /\ fetched
    /\ o.groupChanged /\ o.APIGroup = ""
    /\ \E c \in Candidates : Passed(c)
    /\ \E c \in Candidates : ~Passed(c) /\ GroupOf(lists[c[1]]) # ""

====
